---- MODULE Spec2Model ----
(***************************************************************************)
(* A model of therami: the Session Loader (TheramiData.from_json), the     *)
(* Dataset Collection (TheramiData), the Windowed Dataset (Data), the      *)
(* Exporter and the Plotter.                                               *)
(*                                                                         *)
(* Python dicts keep insertion order, so a dict is modelled as a sequence  *)
(* of [k, v] records (an ordered dict).  Enum members are modelled by      *)
(* their member names ("LEFT", "TRADITIONAL"), their wire codes by         *)
(* Side_value / ActivityType_value.  A raised exception is modelled as an  *)
(* err field holding the name of the error; "none" means no exception.     *)
(***************************************************************************)
EXTENDS Integers, Sequences, FiniteSets, TLC

VARIABLES
    manifest,   \* the parsed all_data.json (ordered dict of subjects)
    fs,         \* the data folders on disk: folder -> CSV files in it
    phase,      \* position in the run: "start", "loaded" (from_json returned or
                \* raised), "filtered" (filter returned), "done" (an operation on
                \* the collection has run)
    load,       \* outcome of from_json: err, error log, resolved folders
    coll,       \* TheramiData._data returned by from_json (<<>> if it failed)
    view,       \* the collection an operation was last applied to / produced
    op,         \* outcome of the last operation on a collection
    table,      \* Data: the two raw tables read from a data folder
    timings,    \* Data: the (start, end) windows given to the constructor
    mask,       \* Data._mask
    dstep,      \* Data: "new" before __init__, "built" after
    out         \* Data: what the last accessor returned

vars == <<manifest, fs, phase, load, coll, view, op, table, timings, mask, dstep, out>>

collVars == <<manifest, fs, phase, load, coll, view, op>>
dataVars == <<table, timings, mask, dstep, out>>

-----------------------------------------------------------------------------
(* Bounds of the model *)

MaxSubjects == 2
MaxRows == 2
MaxWindows == 2
MaxTime == 2

-----------------------------------------------------------------------------
(* Ordered dicts *)

Keys(d) == [i \in 1..Len(d) |-> d[i].k]

Has(d, key) == \E i \in 1..Len(d) : d[i].k = key

Get(d, key) == d[CHOOSE i \in 1..Len(d) : d[i].k = key].v

Put(d, key, val) ==
    IF Has(d, key)
    THEN [i \in 1..Len(d) |-> IF d[i].k = key THEN [k |-> key, v |-> val] ELSE d[i]]
    ELSE Append(d, [k |-> key, v |-> val])

Range(s) == {s[i] : i \in 1..Len(s)}

-----------------------------------------------------------------------------
(* Descriptor model *)

Side == <<"LEFT", "RIGHT", "HEMISIDE", "HEALTHY">>

Side_value(side) ==
    CASE side = "LEFT" -> "L"
      [] side = "RIGHT" -> "R"
      [] side = "HEMISIDE" -> "Hemiside"
      [] side = "HEALTHY" -> "Healthy"

sided_names == <<"LEFT", "RIGHT">>

condition_names == <<"HEMISIDE", "HEALTHY">>

ActivityType == <<"AVG", "TRADITIONAL">>

ActivityType_value(activity_type) ==
    CASE activity_type = "AVG" -> "AVG"
      [] activity_type = "TRADITIONAL" -> "Trad"

\* ActivityType.from_string: the member whose value is the label, else ValueError
ActivityType_from_string(label) ==
    IF \E i \in 1..Len(ActivityType) : ActivityType_value(ActivityType[i]) = label
    THEN [err |-> "none",
          val |-> ActivityType[CHOOSE i \in 1..Len(ActivityType) :
                                  ActivityType_value(ActivityType[i]) = label]]
    ELSE [err |-> "UnknownCode", val |-> "none"]

-----------------------------------------------------------------------------
(* Strings and paths.  A string is a sequence of tokens; "*" and "/" and    *)
(* "::" are tokens of their own.                                            *)

\* str.replace(old, new): every occurrence of the token old becomes new
str_replace(s, old, new) == [i \in 1..Len(s) |-> IF s[i] = old THEN new ELSE s[i]]

\* Path.name: the tokens after the last "/"
Path_name(path) ==
    LET slashes == {i \in 1..Len(path) : path[i] = "/"}
        last == IF slashes = {} THEN 0 ELSE CHOOSE i \in slashes : \A j \in slashes : j <= i
    IN SubSeq(path, last + 1, Len(path))

\* Path.exists
Path_exists(path) == \E f \in fs : f.path = path

\* folder.glob("*_<file_type>.csv"): how many files of the folder match
glob_count(folder, file_type) ==
    LET f == CHOOSE g \in fs : g.path = folder
    IN IF file_type = "activity-counts" THEN f.activity_counts ELSE f.pulse_rate

\* _read_file: exactly one matching file, else an error (logged and raised)
read_file(folder, file_type) ==
    IF glob_count(folder, file_type) = 0 THEN "NoMatchingFile"
    ELSE IF glob_count(folder, file_type) > 1 THEN "AmbiguousFile"
    ELSE "none"

Digits == <<"00", "05", "10">>

DigitValue(tok) == CASE tok = "00" -> 0 [] tok = "05" -> 5 [] tok = "10" -> 10

Dates == {<<"2024-01-01">>}

\* pd.to_datetime(f"{date}T{time}Z").value // 10**6: the instant, kept as the
\* date and the milliseconds since midnight (the full count exceeds 32 bits)
to_datetime_ms(date, time) ==
    IF /\ date \in Dates
       /\ Len(time) = 5
       /\ time[2] = ":" /\ time[4] = ":"
       /\ \A i \in {1, 3, 5} : time[i] \in Range(Digits)
    THEN [err |-> "none",
          val |-> [date |-> date,
                   ms |-> ((DigitValue(time[1]) * 60 + DigitValue(time[3])) * 60
                            + DigitValue(time[5])) * 1000]]
    ELSE [err |-> "InvalidTimestamp", val |-> "none"]

\* the loop over activity_metadata["data"] of from_json
RECURSIVE parse_timings(_, _, _, _)
parse_timings(date, data, i, acc) ==
    IF i > Len(data) THEN [err |-> "none", val |-> acc]
    ELSE LET start == to_datetime_ms(date, str_replace(data[i].start, "::", ":"))
             end == to_datetime_ms(date, str_replace(data[i].end, "::", ":"))
         IN IF start.err # "none" THEN [err |-> start.err, val |-> acc]
            ELSE IF end.err # "none" THEN [err |-> end.err, val |-> acc]
            ELSE parse_timings(date, data, i + 1, Append(acc, <<start.val, end.val>>))

\* Data.__init__ as the loader sees it: both files are read (or an error is
\* raised); the instance is identified by id
Data_new(data_folder, timing_list, id) ==
    IF read_file(data_folder, "activity-counts") # "none"
    THEN [err |-> read_file(data_folder, "activity-counts"), val |-> "none"]
    ELSE IF read_file(data_folder, "pulse-rate") # "none"
    THEN [err |-> read_file(data_folder, "pulse-rate"), val |-> "none"]
    ELSE [err |-> "none",
          val |-> [id |-> id, data_folder |-> data_folder, timings |-> timing_list]]

-----------------------------------------------------------------------------
(* Session Loader: TheramiData.from_json *)

\* the state of the loops of from_json
LoadStart ==
    [err |-> "none", data |-> <<>>, activity_names |-> [none |-> TRUE, names |-> {}],
     log |-> <<>>, resolved |-> <<>>, nextId |-> 1]

Raise(st, error) == [st EXCEPT !.err = error]

LogError(st, entry) == [st EXCEPT !.log = Append(@, entry)]

\* sorted(list(d.keys())) compared as lists: equal iff same key sets (keys are unique)
SortedKeys(d) == Range(Keys(d))

\* data[subject][side][activity][activity_type] = value
Put4(data, subject, side, activity, activity_type, value) ==
    LET d1 == Get(data, subject)
        d2 == Get(d1, side)
        d3 == Get(d2, activity)
    IN Put(data, subject, Put(d1, side, Put(d2, activity, Put(d3, activity_type, value))))

\* a slip in the HEALTHY branch: it resolves to the hemiside itself
resolve_side_same(side, hemiside) ==
    IF side = "HEMISIDE" THEN hemiside
    ELSE IF side = "HEALTHY" THEN hemiside
    ELSE Side_value(side)

\* "side_value = side.value", replaced for HEMISIDE and HEALTHY
resolve_side(side, hemiside) ==
    IF side = "HEMISIDE" THEN hemiside
    ELSE IF side = "HEALTHY" THEN (IF hemiside = "L" THEN "R" ELSE "L")
    ELSE Side_value(side)

\* body of "for activity_type in activity_types.keys()"
LoadLeaf(st, subject_name, hemiside, side, activity, code, activity_metadata) ==
    LET activity_type == ActivityType_from_string(code)
        side_value == resolve_side(side, hemiside)
        data_folder == str_replace(activity_metadata.data_folder, "*", side_value)
        st1 == [st EXCEPT !.resolved = Append(@,
                    [subject |-> subject_name, side |-> side, activity |-> activity,
                     activity_type |-> activity_type.val, hemiside |-> hemiside,
                     pattern |-> activity_metadata.data_folder,
                     side_value |-> side_value, data_folder |-> data_folder])]
        timing_list == parse_timings(Path_name(data_folder), activity_metadata.data, 1, <<>>)
        new == Data_new(data_folder, timing_list.val, st.nextId)
    IN IF activity_type.err # "none" THEN Raise(st, activity_type.err)
       ELSE IF ~Path_exists(data_folder)
       THEN Raise(LogError(st1, [kind |-> "DataFolderNotFound"]), "DataFolderNotFound")
       ELSE IF timing_list.err # "none" THEN Raise(st1, timing_list.err)
       ELSE IF new.err # "none" THEN Raise(LogError(st1, [kind |-> new.err]), new.err)
       ELSE [st1 EXCEPT
               !.data = Put4(@, subject_name, side, activity, activity_type.val, new.val),
               !.nextId = @ + 1]

RECURSIVE LoadTypes(_, _, _, _, _, _, _)
LoadTypes(st, subject_name, hemiside, side, activity, activity_types, i) ==
    IF st.err # "none" \/ i > Len(activity_types) THEN st
    ELSE LoadTypes(LoadLeaf(st, subject_name, hemiside, side, activity,
                            activity_types[i].k, activity_types[i].v),
                   subject_name, hemiside, side, activity, activity_types, i + 1)

\* the check made fatal, like the activity-name check
check_activity_types_fatal(st, subject_name, side, activity, activity_types) ==
    IF SortedKeys(activity_types)
         # {ActivityType_value(ActivityType[j]) : j \in 1..Len(ActivityType)}
    THEN Raise(LogError(st, [kind |-> "ActivityTypesMismatch", subject |-> subject_name,
                             side |-> side, activity |-> activity]), "SchemaMismatch")
    ELSE st

\* "if sorted(activity_types.keys()) != sorted([... for activity in ActivityType])":
\* the error is logged, nothing is raised
check_activity_types(st, subject_name, side, activity, activity_types) ==
    IF SortedKeys(activity_types)
         # {ActivityType_value(ActivityType[j]) : j \in 1..Len(ActivityType)}
    THEN LogError(st, [kind |-> "ActivityTypesMismatch", subject |-> subject_name,
                       side |-> side, activity |-> activity])
    ELSE st

\* body of "for activity in activities.keys()"
LoadActivity(st, subject_name, hemiside, side, activity, activity_types) ==
    LET st1 == [st EXCEPT !.data =
                   Put(@, subject_name,
                       Put(Get(@, subject_name), side,
                           Put(Get(Get(@, subject_name), side), activity, <<>>)))]
        st2 == check_activity_types(st1, subject_name, side, activity, activity_types)
    IN LoadTypes(st2, subject_name, hemiside, side, activity, activity_types, 1)

RECURSIVE LoadActivities(_, _, _, _, _, _)
LoadActivities(st, subject_name, hemiside, side, activities, i) ==
    IF st.err # "none" \/ i > Len(activities) THEN st
    ELSE LoadActivities(LoadActivity(st, subject_name, hemiside, side,
                                     activities[i].k, activities[i].v),
                        subject_name, hemiside, side, activities, i + 1)

\* body of "for side in Side"
LoadSide(st, subject_name, subject, side) ==
    LET st1 == [st EXCEPT !.data = Put(@, subject_name, Put(Get(@, subject_name), side, <<>>))]
        activities == subject.activities
    IN IF st1.activity_names.none
       THEN LoadActivities([st1 EXCEPT !.activity_names =
                                [none |-> FALSE, names |-> SortedKeys(activities)]],
                           subject_name, subject.hemiside, side, activities, 1)
       ELSE IF st1.activity_names.names # SortedKeys(activities)
       THEN Raise(LogError(st1, [kind |-> "SchemaMismatch", subject |-> subject_name,
                                 side |-> side]), "SchemaMismatch")
       ELSE LoadActivities(st1, subject_name, subject.hemiside, side, activities, 1)

RECURSIVE LoadSides(_, _, _, _)
LoadSides(st, subject_name, subject, i) ==
    IF st.err # "none" \/ i > Len(Side) THEN st
    ELSE LoadSides(LoadSide(st, subject_name, subject, Side[i]), subject_name, subject, i + 1)

\* body of "for subject_name in subjects.keys()"
LoadSubject(st, subject_name, subject) ==
    LET st1 == [st EXCEPT !.data = Put(@, subject_name, <<>>)]
    IN IF subject.hemiside \notin {"L", "R"}
       THEN Raise(LogError(st1, [kind |-> "InvalidHemiside", subject |-> subject_name]),
                  "InvalidHemiside")
       ELSE LoadSides(st1, subject_name, subject, 1)

RECURSIVE LoadSubjects(_, _, _)
LoadSubjects(st, subjects, i) ==
    IF st.err # "none" \/ i > Len(subjects) THEN st
    ELSE LoadSubjects(LoadSubject(st, subjects[i].k, subjects[i].v), subjects, i + 1)

from_json(subjects) == LoadSubjects(LoadStart, subjects, 1)

-----------------------------------------------------------------------------
(* Dataset Collection: TheramiData.  d is TheramiData._data.  Every         *)
(* operator returns [err, val]; err = "IndexError" models tuple[0] of an    *)
(* empty tuple, err = "KeyNotFound" a KeyError of a dict lookup.            *)

Ok(val) == [err |-> "none", val |-> val]

Err(error) == [err |-> error, val |-> <<>>]

subjects(d) == Ok(Keys(d))

sides(d) ==
    LET subs == Keys(d)
    IN IF Len(subs) = 0 THEN Err("IndexError") ELSE Ok(Keys(Get(d, subs[1])))

activities(d) ==
    LET sds == sides(d)
    IN IF sds.err # "none" THEN sds
       ELSE IF Len(sds.val) = 0 THEN Err("IndexError")
       ELSE Ok(Keys(Get(Get(d, Keys(d)[1]), sds.val[1])))

activity_types(d) ==
    LET sds == sides(d)
        acts == activities(d)
    IN IF acts.err # "none" THEN acts
       ELSE IF Len(acts.val) = 0 THEN Err("IndexError")
       ELSE Ok(Keys(Get(Get(Get(d, Keys(d)[1]), sds.val[1]), acts.val[1])))

\* TheramiData.__getitem__ / get
getitem(d, keys) ==
    IF ~Has(d, keys.subject) THEN Err("KeyNotFound")
    ELSE IF ~Has(Get(d, keys.subject), keys.side) THEN Err("KeyNotFound")
    ELSE IF ~Has(Get(Get(d, keys.subject), keys.side), keys.activity) THEN Err("KeyNotFound")
    ELSE IF ~Has(Get(Get(Get(d, keys.subject), keys.side), keys.activity), keys.activity_type)
    THEN Err("KeyNotFound")
    ELSE Ok(Get(Get(Get(Get(d, keys.subject), keys.side), keys.activity), keys.activity_type))

Key(subject, side, activity, activity_type) ==
    [subject |-> subject, side |-> side, activity |-> activity, activity_type |-> activity_type]

\* an argument of filter: omitted (None), a single value, or an iterable
None == [kind |-> "none"]

Single(x) == [kind |-> "single", one |-> x]

Iterable(xs) == [kind |-> "iter", val |-> xs]

\* "if isinstance(x, str): x = [x]"
Normalise(arg) == IF arg.kind = "single" THEN Iterable(<<arg.one>>) ELSE arg

\* "self.<axis> if <axis> is None else <axis>"
Axis(arg, property) == IF arg.kind = "none" THEN property ELSE Ok(arg.val)

RECURSIVE FilterTypes(_, _, _, _, _, _, _)
FilterTypes(st, d, subject, side, activity, axis, i) ==
    IF st.err # "none" \/ i > Len(axis) THEN st
    ELSE LET leaf == getitem(d, Key(subject, side, activity, axis[i]))
         IN FilterTypes(IF leaf.err # "none" THEN [st EXCEPT !.err = leaf.err]
                        ELSE [st EXCEPT !.val = Put4(@, subject, side, activity, axis[i], leaf.val)],
                        d, subject, side, activity, axis, i + 1)

RECURSIVE FilterActivities(_, _, _, _, _, _, _)
FilterActivities(st, d, subject, side, axis, types, i) ==
    IF st.err # "none" \/ i > Len(axis) THEN st
    ELSE LET st1 == [st EXCEPT !.val =
                        Put(@, subject, Put(Get(@, subject), side,
                                            Put(Get(Get(@, subject), side), axis[i], <<>>)))]
             inner == Axis(types, activity_types(d))
         IN FilterActivities(IF inner.err # "none" THEN [st1 EXCEPT !.err = inner.err]
                             ELSE FilterTypes(st1, d, subject, side, axis[i], inner.val, 1),
                             d, subject, side, axis, types, i + 1)

RECURSIVE FilterSides(_, _, _, _, _, _, _)
FilterSides(st, d, subject, axis, acts, types, i) ==
    IF st.err # "none" \/ i > Len(axis) THEN st
    ELSE LET st1 == [st EXCEPT !.val = Put(@, subject, Put(Get(@, subject), axis[i], <<>>))]
             inner == Axis(acts, activities(d))
         IN FilterSides(IF inner.err # "none" THEN [st1 EXCEPT !.err = inner.err]
                        ELSE FilterActivities(st1, d, subject, axis[i], inner.val, types, 1),
                        d, subject, axis, acts, types, i + 1)

RECURSIVE FilterSubjects(_, _, _, _, _, _, _)
FilterSubjects(st, d, axis, sds, acts, types, i) ==
    IF st.err # "none" \/ i > Len(axis) THEN st
    ELSE LET st1 == [st EXCEPT !.val = Put(@, axis[i], <<>>)]
             inner == Axis(sds, sides(d))
         IN FilterSubjects(IF inner.err # "none" THEN [st1 EXCEPT !.err = inner.err]
                           ELSE FilterSides(st1, d, axis[i], inner.val, acts, types, 1),
                           d, axis, sds, acts, types, i + 1)

\* TheramiData.filter: [err, val], val the _data of the new collection
filter(d, subjectsArg, sidesArg, activitiesArg, typesArg) ==
    FilterSubjects(Ok(<<>>), d, Axis(Normalise(subjectsArg), subjects(d)).val,
                   Normalise(sidesArg), Normalise(activitiesArg), Normalise(typesArg), 1)

\* TheramiData.__iter__: [err, val], val the keys yielded (before any error)
RECURSIVE IterTypes(_, _, _, _, _, _)
IterTypes(st, subject, side, activity, axis, i) ==
    IF i > Len(axis) THEN st
    ELSE IterTypes([st EXCEPT !.val = Append(@, Key(subject, side, activity, axis[i]))],
                   subject, side, activity, axis, i + 1)

RECURSIVE IterActivities(_, _, _, _, _, _)
IterActivities(st, d, subject, side, axis, i) ==
    IF st.err # "none" \/ i > Len(axis) THEN st
    ELSE LET inner == activity_types(d)
         IN IterActivities(IF inner.err # "none" THEN [st EXCEPT !.err = inner.err]
                           ELSE IterTypes(st, subject, side, axis[i], inner.val, 1),
                           d, subject, side, axis, i + 1)

RECURSIVE IterSides(_, _, _, _, _)
IterSides(st, d, subject, axis, i) ==
    IF st.err # "none" \/ i > Len(axis) THEN st
    ELSE LET inner == activities(d)
         IN IterSides(IF inner.err # "none" THEN [st EXCEPT !.err = inner.err]
                      ELSE IterActivities(st, d, subject, axis[i], inner.val, 1),
                      d, subject, axis, i + 1)

RECURSIVE IterSubjects(_, _, _, _)
IterSubjects(st, d, axis, i) ==
    IF st.err # "none" \/ i > Len(axis) THEN st
    ELSE LET inner == sides(d)
         IN IterSubjects(IF inner.err # "none" THEN [st EXCEPT !.err = inner.err]
                         ELSE IterSides(st, d, axis[i], inner.val, 1),
                         d, axis, i + 1)

iter(d) == IterSubjects(Ok(<<>>), d, subjects(d).val, 1)

-----------------------------------------------------------------------------
(* Exporter.to_csv.  A row of a table is modelled by its key columns and    *)
(* the instances its statistics are computed from.                          *)

\* first loop: one summary row per yielded key; data[keys] may raise
RECURSIVE SummaryRows(_, _, _, _)
SummaryRows(st, d, keys, i) ==
    IF st.err # "none" \/ i > Len(keys) THEN st
    ELSE LET tp == getitem(d, keys[i])
         IN SummaryRows(IF tp.err # "none" THEN [st EXCEPT !.err = tp.err]
                        ELSE [st EXCEPT !.val = Append(@,
                                 [subject |-> keys[i].subject, side |-> keys[i].side,
                                  activity |-> keys[i].activity,
                                  activity_type |-> keys[i].activity_type,
                                  tp |-> tp.val.id])],
                        d, keys, i + 1)

\* a row whose HEALTHY counterpart is absent is skipped instead of raising
BimanualRow_skip(st, d, key) ==
    LET tp_hemi == getitem(d, key)
        tp_healthy == getitem(d, [key EXCEPT !.side = "HEALTHY"])
    IN IF key.side # "HEMISIDE" THEN st
       ELSE IF tp_hemi.err # "none" THEN [st EXCEPT !.err = tp_hemi.err]
       ELSE IF tp_healthy.err # "none" THEN st
       ELSE [st EXCEPT !.val = Append(@,
                [subject |-> key.subject, activity |-> key.activity,
                 activity_type |-> key.activity_type,
                 tp_hemi |-> tp_hemi.val.id, tp_healthy |-> tp_healthy.val.id])]

\* body of the second loop: keys other than HEMISIDE are skipped; the HEMISIDE
\* instance and its HEALTHY counterpart are looked up (either may raise)
BimanualRow(st, d, key) ==
    LET tp_hemi == getitem(d, key)
        tp_healthy == getitem(d, [key EXCEPT !.side = "HEALTHY"])
    IN IF key.side # "HEMISIDE" THEN st
       ELSE IF tp_hemi.err # "none" THEN [st EXCEPT !.err = tp_hemi.err]
       ELSE IF tp_healthy.err # "none" THEN [st EXCEPT !.err = tp_healthy.err]
       ELSE [st EXCEPT !.val = Append(@,
                [subject |-> key.subject, activity |-> key.activity,
                 activity_type |-> key.activity_type,
                 tp_hemi |-> tp_hemi.val.id, tp_healthy |-> tp_healthy.val.id])]

\* second loop: one bimanual row per yielded key whose side is HEMISIDE
RECURSIVE BimanualRows(_, _, _, _)
BimanualRows(st, d, keys, i) ==
    IF st.err # "none" \/ i > Len(keys) THEN st
    ELSE BimanualRows(BimanualRow(st, d, keys[i]), d, keys, i + 1)

\* both files are opened before the tables are built
Exporter_to_csv_eager(d) ==
    LET keys == iter(d).val
        summary == SummaryRows(Ok(<<>>), d, keys, 1)
        bimanual == BimanualRows(Ok(<<>>), d, keys, 1)
    IN [err |-> IF summary.err # "none" THEN summary.err ELSE bimanual.err,
        written |-> <<"summary_statistics.csv", "bimanual_statistics.csv">>,
        summary |-> summary.val, bimanual |-> bimanual.val]

\* Exporter.to_csv: the error raised, the files written (in order) and the tables
Exporter_to_csv(d) ==
    LET keys == iter(d).val
        summary == SummaryRows(Ok(<<>>), d, keys, 1)
        bimanual == BimanualRows(Ok(<<>>), d, keys, 1)
    IN IF summary.err # "none"
       THEN [err |-> summary.err, written |-> <<>>, summary |-> <<>>, bimanual |-> <<>>]
       ELSE IF bimanual.err # "none"
       THEN [err |-> bimanual.err, written |-> <<"summary_statistics.csv">>,
             summary |-> summary.val, bimanual |-> <<>>]
       ELSE [err |-> "none",
             written |-> <<"summary_statistics.csv", "bimanual_statistics.csv">>,
             summary |-> summary.val, bimanual |-> bimanual.val]

-----------------------------------------------------------------------------
(* Plotter.  The steps that render are recorded in order in events.         *)

product(xs, ys) ==
    [n \in 1..(Len(xs) * Len(ys)) |-> <<xs[((n - 1) \div Len(ys)) + 1], ys[((n - 1) % Len(ys)) + 1]>>]

\* the list comprehension "data.get(...) for act in data.activities"
RECURSIVE GroupData(_, _, _, _, _, _)
GroupData(st, d, subject, group, acts, i) ==
    IF st.err # "none" \/ i > Len(acts) THEN st
    ELSE LET leaf == getitem(d, Key(subject, group[2], acts[i], group[1]))
         IN GroupData(IF leaf.err # "none" THEN [st EXCEPT !.err = leaf.err]
                      ELSE [st EXCEPT !.val = Append(@, leaf.val.id)],
                      d, subject, group, acts, i + 1)

\* the loop "for i, (activity_type, side) in enumerate(groups)"
RECURSIVE DrawGroups(_, _, _, _, _)
DrawGroups(st, d, subject, groups, i) ==
    IF st.err # "none" \/ i > Len(groups) THEN st
    ELSE LET activity_data == GroupData(Ok(<<>>), d, subject, groups[i], activities(d).val, 1)
         IN DrawGroups(IF activity_data.err # "none" THEN [st EXCEPT !.err = activity_data.err]
                       ELSE [st EXCEPT !.events = Append(@, "boxplot")],
                       d, subject, groups, i + 1)

\* "and" in place of "or": only a complete frame counts
Mixed_all(sds) ==
    /\ ("LEFT" \in Range(sds) /\ "RIGHT" \in Range(sds))
    /\ ("HEMISIDE" \in Range(sds) /\ "HEALTHY" \in Range(sds))

\* the two "if ... in data.sides" tests (the second pair repeats the first)
Mixed(sds) ==
    \/ /\ ("LEFT" \in Range(sds) \/ "RIGHT" \in Range(sds))
       /\ ("HEMISIDE" \in Range(sds) \/ "HEALTHY" \in Range(sds))
    \/ /\ ("HEMISIDE" \in Range(sds) \/ "HEALTHY" \in Range(sds))
       /\ ("LEFT" \in Range(sds) \/ "RIGHT" \in Range(sds))

\* Plotter._boxplot: [err, events]
Plotter_boxplot(d) ==
    LET start == [err |-> "none", events |-> <<>>]
        types == activity_types(d)
        sds == sides(d)
        groups == product(types.val, sds.val)
        drawn == DrawGroups([start EXCEPT !.events = <<"subplots">>], d,
                            subjects(d).val[1], groups, 1)
    IN IF Len(subjects(d).val) > 1 THEN [start EXCEPT !.err = "MultiSubjectUnsupported"]
       ELSE IF Len(subjects(d).val) = 0 THEN [start EXCEPT !.err = "IndexError"]
       ELSE IF types.err # "none" THEN [start EXCEPT !.err = types.err]
       ELSE IF Mixed(sds.val) THEN [start EXCEPT !.err = "MixedSideFrame"]
       ELSE IF drawn.err # "none" THEN drawn
       ELSE IF Len(groups) = 0 THEN [drawn EXCEPT !.err = "UnboundLocalError"]
       ELSE [drawn EXCEPT !.events = Append(@, "tight_layout")]

\* Plotter.activity_counts_boxplot / pulse_rate_boxplot: save if asked, then show
Plotter_plot(d, save) ==
    LET fig == Plotter_boxplot(d)
    IN IF fig.err # "none" THEN fig
       ELSE [fig EXCEPT !.events =
                IF save THEN @ \o <<"savefig", "show">> ELSE Append(@, "show")]

-----------------------------------------------------------------------------
(* Windowed Dataset: Data, with its tables.  A table is the sequence of its *)
(* timestamp_unix column; row i carries the index label i (a RangeIndex).   *)

\* "self._mask = timestamp_unix < 0", then "self._mask |= (ts >= start) & (ts <= end)"
\* for each timing in order
RECURSIVE MaskLoop(_, _, _, _)
MaskLoop(m, ts, windows, i) ==
    IF i > Len(windows) THEN m
    ELSE MaskLoop([r \in 1..Len(ts) |->
                      m[r] \/ (ts[r] >= windows[i][1] /\ ts[r] <= windows[i][2])],
                  ts, windows, i + 1)

Data_mask(ts, windows) == MaskLoop([r \in 1..Len(ts) |-> ts[r] < 0], ts, windows, 1)

RECURSIVE SelectRows(_, _, _)
SelectRows(ts, m, i) ==
    IF i > Len(ts) THEN <<>>
    ELSE (IF m[i] THEN <<[index |-> i, timestamp_unix |-> ts[i]]>> ELSE <<>>)
         \o SelectRows(ts, m, i + 1)

\* DataFrame.loc[mask, columns]: the boolean Series is aligned on the index labels
\* of the frame; a label of the frame the mask does not have is an IndexingError
loc(ts, m) ==
    IF Len(ts) > Len(m) THEN [err |-> "IndexingError", val |-> <<>>]
    ELSE [err |-> "none", val |-> SelectRows(ts, m, 1)]

Data_activity_counts(t, m) == loc(t.activity_counts, m)

Data_pulse_rate(t, m) == loc(t.pulse_rate, m)

-----------------------------------------------------------------------------
(* Inputs *)

P1 == <<"*", "/", "2024-01-01">>

P2 == <<"both", "/", "2024-01-01">>

Time(h, m, sec) == <<h, "::", m, "::", sec>>

Good == <<[start |-> Time("10", "00", "00"), end |-> Time("10", "05", "00")]>>

Bad == <<[start |-> Time("10", "00", "00"), end |-> <<"10", "::", "xx">>]>>

Meta(pattern, data) == [data_folder |-> pattern, data |-> data]

E(key, val) == [k |-> key, v |-> val]

Both(pattern) == <<E("AVG", Meta(pattern, Good)), E("Trad", Meta(pattern, Good))>>

\* the "activities" object of one subject
ActivityConfigs ==
    { <<E("a1", Both(P1)), E("a2", Both(P1))>>,
      <<E("a1", Both(P1)), E("a2", <<E("AVG", Meta(P1, Good))>>)>>,
      <<E("a1", <<E("AVG", Meta(P1, Good))>>), E("a2", Both(P1))>>,
      <<E("a2", <<E("Trad", Meta(P2, Good)), E("AVG", Meta(P1, Good))>>), E("a1", Both(P1))>> }

FaultyConfigs ==
    { <<E("a1", Both(P1))>>,
      <<E("a1", Both(P1) \o <<E("Foo", Meta(P1, Good))>>), E("a2", Both(P1))>>,
      <<E("a1", Both(P1)), E("a2", <<E("AVG", Meta(P1, Bad)), E("Trad", Meta(P1, Good))>>)>> }

SubjectChoices ==
    {[hemiside |-> h, activities |-> a] : h \in {"L", "R"}, a \in ActivityConfigs}
    \cup {[hemiside |-> "L", activities |-> a] : a \in FaultyConfigs \cup {<<>>}}
    \cup {[hemiside |-> "X", activities |-> a] : a \in {<<E("a1", Both(P1)), E("a2", Both(P1))>>}}

SubjectNames == <<"s1", "s2", "s3", "s4">>

Manifests ==
    UNION {{[i \in 1..n |-> E(SubjectNames[i], c[i])] : c \in [1..n -> SubjectChoices]}
           : n \in 0..MaxSubjects}

Folder(path, nac, npr) == [path |-> path, activity_counts |-> nac, pulse_rate |-> npr]

LFolder == <<"L", "/", "2024-01-01">>

RFolder == <<"R", "/", "2024-01-01">>

FileSystems ==
    { {Folder(LFolder, 1, 1), Folder(RFolder, 1, 1), Folder(P2, 1, 1)},
      {Folder(LFolder, 1, 1), Folder(P2, 1, 1)},
      {Folder(LFolder, 2, 1), Folder(RFolder, 1, 1), Folder(P2, 1, 1)},
      {Folder(LFolder, 1, 1), Folder(RFolder, 1, 0), Folder(P2, 1, 1)} }

SubjectArgs == {None, Single("s1")}

SideArgs ==
    {None, Iterable(condition_names), Iterable(sided_names), Single("HEMISIDE"),
     Iterable(<<"LEFT", "HEMISIDE">>)}

LeafArgs == {<<None, None>>, <<Single("a2"), Single("TRADITIONAL")>>}

TimeValues == (0 - 1)..MaxTime

Tables == UNION {[1..n -> TimeValues] : n \in 0..MaxRows}

Windows == UNION {[1..n -> (0..MaxTime) \X (0..MaxTime)] : n \in 0..MaxWindows}

-----------------------------------------------------------------------------
(* The pipeline on a manifest: from_json, then operations on collections *)

NoOp == [kind |-> "none", err |-> "none"]

IdleData ==
    /\ table = [activity_counts |-> <<>>, pulse_rate |-> <<>>]
    /\ timings = <<>>
    /\ mask = <<>>
    /\ dstep = "idle"
    /\ out = NoOp

Init ==
    /\ manifest \in Manifests
    /\ fs \in FileSystems
    /\ phase = "start"
    /\ load = [err |-> "none", log |-> <<>>, resolved |-> <<>>]
    /\ coll = <<>>
    /\ view = <<>>
    /\ op = NoOp
    /\ IdleData

FromJson ==
    /\ phase = "start"
    /\ LET st == from_json(manifest)
       IN /\ load' = [err |-> st.err, log |-> st.log, resolved |-> st.resolved]
          /\ coll' = IF st.err = "none" THEN st.data ELSE <<>>
          /\ view' = IF st.err = "none" THEN st.data ELSE <<>>
    /\ phase' = "loaded"
    /\ op' = [kind |-> "from_json", err |-> load'.err]
    /\ UNCHANGED <<manifest, fs>>
    /\ UNCHANGED dataVars

\* a collection exists and no operation has consumed the run yet
Loaded == phase \in {"loaded", "filtered"} /\ load.err = "none"

Filter ==
    /\ phase = "loaded" /\ load.err = "none"
    /\ \E sj \in SubjectArgs, sd \in SideArgs, lf \in LeafArgs :
          LET new == filter(coll, sj, sd, lf[1], lf[2])
          IN /\ op' = [kind |-> "filter", err |-> new.err, val |-> new.val,
                       args |-> <<sj, sd, lf[1], lf[2]>>]
             /\ view' = IF new.err = "none" THEN new.val ELSE coll
             /\ phase' = IF new.err = "none" THEN "filtered" ELSE "done"
    /\ UNCHANGED <<manifest, fs, load, coll>>
    /\ UNCHANGED dataVars

Iterate ==
    /\ Loaded
    /\ op' = [kind |-> "iter", err |-> iter(view).err, keys |-> iter(view).val]
    /\ phase' = "done"
    /\ UNCHANGED <<manifest, fs, load, coll, view>>
    /\ UNCHANGED dataVars

ToCsv ==
    /\ Loaded
    /\ LET r == Exporter_to_csv(view)
       IN op' = [kind |-> "to_csv", err |-> r.err, written |-> r.written,
                 summary |-> r.summary, bimanual |-> r.bimanual]
    /\ phase' = "done"
    /\ UNCHANGED <<manifest, fs, load, coll, view>>
    /\ UNCHANGED dataVars

Boxplot ==
    /\ Loaded
    /\ \E metric \in {"activity_counts", "pulse_rate"}, save \in BOOLEAN :
          LET r == Plotter_plot(view, save)
          IN op' = [kind |-> "boxplot", err |-> r.err, events |-> r.events,
                    metric |-> metric, save |-> save]
    /\ phase' = "done"
    /\ UNCHANGED <<manifest, fs, load, coll, view>>
    /\ UNCHANGED dataVars

Next == FromJson \/ Filter \/ Iterate \/ ToCsv \/ Boxplot

Spec == Init /\ [][Next]_vars

-----------------------------------------------------------------------------
(* One Windowed Dataset: construction, then the two accessors *)

IdleColl ==
    /\ manifest = <<>>
    /\ fs = {}
    /\ phase = "idle"
    /\ load = [err |-> "none", log |-> <<>>, resolved |-> <<>>]
    /\ coll = <<>>
    /\ view = <<>>
    /\ op = NoOp

InitData ==
    /\ table \in [activity_counts : Tables, pulse_rate : Tables]
    /\ timings \in Windows
    /\ mask = <<>>
    /\ dstep = "new"
    /\ out = NoOp
    /\ IdleColl

DataInit ==
    /\ dstep = "new"
    /\ mask' = Data_mask(table.activity_counts, timings)
    /\ dstep' = "built"
    /\ UNCHANGED <<table, timings, out>>
    /\ UNCHANGED collVars

ActivityCounts ==
    /\ dstep = "built"
    /\ LET r == Data_activity_counts(table, mask)
       IN out' = [kind |-> "activity_counts", err |-> r.err, rows |-> r.val]
    /\ UNCHANGED <<table, timings, mask, dstep>>
    /\ UNCHANGED collVars

PulseRate ==
    /\ dstep = "built"
    /\ LET r == Data_pulse_rate(table, mask)
       IN out' = [kind |-> "pulse_rate", err |-> r.err, rows |-> r.val]
    /\ UNCHANGED <<table, timings, mask, dstep>>
    /\ UNCHANGED collVars

NextData == DataInit \/ ActivityCounts \/ PulseRate

SpecData == InitData /\ [][NextData]_vars

-----------------------------------------------------------------------------
(* What the claims speak of *)

\* the stored leaves of a collection, each with the identity of its instance
Leaves(d) ==
    UNION { UNION { UNION {
        { [key |-> Key(d[i].k, d[i].v[j].k, d[i].v[j].v[a].k, d[i].v[j].v[a].v[t].k),
           id |-> d[i].v[j].v[a].v[t].v.id] : t \in 1..Len(d[i].v[j].v[a].v) }
        : a \in 1..Len(d[i].v[j].v) } : j \in 1..Len(d[i].v) } : i \in 1..Len(d) }

StoredKeys(d) == {l.key : l \in Leaves(d)}

LeafId(d, key) == (CHOOSE l \in Leaves(d) : l.key = key).id

\* the keys of each subject are contiguous, within them the keys of each side,
\* within them the keys of each activity
Nested(keys) ==
    \A n, m, q \in 1..Len(keys) :
        (n < m /\ m < q) =>
            /\ keys[n].subject = keys[q].subject => keys[m].subject = keys[n].subject
            /\ (keys[n].subject = keys[q].subject /\ keys[n].side = keys[q].side)
                  => keys[m].side = keys[n].side
            /\ (keys[n].subject = keys[q].subject /\ keys[n].side = keys[q].side
                  /\ keys[n].activity = keys[q].activity)
                  => keys[m].activity = keys[n].activity

InSomeWindow(t, windows) ==
    \E w \in 1..Len(windows) : windows[w][1] <= t /\ t <= windows[w][2]

RowIndexes(rows) == {rows[n].index : n \in 1..Len(rows)}

Ran == phase \in {"loaded", "filtered", "done"}

\* C1: a row of the activity-count table is returned by activity_counts iff its
\* timestamp lies in at least one inclusive [start, end] window (so an empty
\* window list selects no row).
C1_RowMask ==
    out.kind = "activity_counts" =>
        /\ out.err = "none"
        /\ \A r \in 1..Len(table.activity_counts) :
              r \in RowIndexes(out.rows) <=> InSomeWindow(table.activity_counts[r], timings)

\* C2: a row of the pulse-rate table is returned by pulse_rate iff that row's own
\* timestamp lies in at least one inclusive window, also when the two tables'
\* timestamps differ at the same row position.
C2_PulseRowMask ==
    out.kind = "pulse_rate" =>
        /\ out.err = "none"
        /\ \A r \in 1..Len(table.pulse_rate) :
              r \in RowIndexes(out.rows) <=> InSomeWindow(table.pulse_rate[r], timings)

\* C3: in every collection from_json returns, all subjects have the same sides,
\* the same activity names and, for every activity, the same activity types.
C3_Rectangular ==
    (Ran /\ load.err = "none") =>
        /\ \A i, i2 \in 1..Len(coll) : Range(Keys(coll[i].v)) = Range(Keys(coll[i2].v))
        /\ \A i, i2 \in 1..Len(coll) :
              \A j \in 1..Len(coll[i].v), j2 \in 1..Len(coll[i2].v) :
                 /\ Range(Keys(coll[i].v[j].v)) = Range(Keys(coll[i2].v[j2].v))
                 /\ \A a \in 1..Len(coll[i].v[j].v), a2 \in 1..Len(coll[i2].v[j2].v) :
                       Range(Keys(coll[i].v[j].v[a].v)) = Range(Keys(coll[i2].v[j2].v[a2].v))

\* C4: iterating a collection made by from_json or by filter yields each stored
\* quadruple exactly once and no absent quadruple, in subject, side, activity,
\* activity_type nesting order, |subjects| x |sides| x |activities| x
\* |activity_types| keys in all.
C4_IterationExact ==
    op.kind = "iter" =>
        /\ op.err = "none"
        /\ \A n, m \in 1..Len(op.keys) : n # m => op.keys[n] # op.keys[m]
        /\ Range(op.keys) = StoredKeys(view)
        /\ Nested(op.keys)
        /\ Len(op.keys) = Len(subjects(view).val) * Len(sides(view).val)
                          * Len(activities(view).val) * Len(activity_types(view).val)
        /\ Len(op.keys) = Cardinality(Leaves(view))

\* C5: filter() without arguments succeeds on every collection from_json returns
\* and gives a collection with the same stored keys, each holding the very same
\* instance.
C5_FilterIdentity ==
    (op.kind = "filter" /\ \A n \in 1..4 : op.args[n].kind = "none") =>
        /\ op.err = "none"
        /\ Leaves(op.val) = Leaves(coll)

ExpectedCode(side, hemiside) ==
    CASE side = "LEFT" -> "L"
      [] side = "RIGHT" -> "R"
      [] side = "HEMISIDE" -> hemiside
      [] side = "HEALTHY" -> CHOOSE c \in {"L", "R"} : c # hemiside

SameLeaf(r, q) ==
    r.subject = q.subject /\ r.activity = q.activity /\ r.activity_type = q.activity_type

\* C6: the folder used for a leaf is the pattern with the wildcard replaced by "L"
\* for LEFT, "R" for RIGHT, the hemiside for HEMISIDE and its opposite for HEALTHY;
\* so HEMISIDE and HEALTHY resolve to different physical sides, HEMISIDE to the
\* folder of the LEFT/RIGHT side whose code is the hemiside, HEALTHY to the other.
C6_FolderResolution ==
    \A n \in 1..Len(load.resolved) :
        LET r == load.resolved[n]
        IN /\ r.hemiside \in {"L", "R"}
           /\ r.side_value = ExpectedCode(r.side, r.hemiside)
           /\ Len(r.data_folder) = Len(r.pattern)
           /\ \A k \in 1..Len(r.pattern) :
                 r.data_folder[k] = IF r.pattern[k] = "*"
                                    THEN ExpectedCode(r.side, r.hemiside)
                                    ELSE r.pattern[k]
           /\ \A m \in 1..Len(load.resolved) :
                 LET q == load.resolved[m]
                 IN SameLeaf(r, q) =>
                       /\ (r.side = "HEMISIDE" /\ q.side = "HEALTHY")
                             => r.side_value # q.side_value
                       /\ (r.side = "HEMISIDE" /\ q.side \in {"LEFT", "RIGHT"}
                             /\ Side_value(q.side) = r.hemiside)
                             => r.data_folder = q.data_folder
                       /\ (r.side = "HEALTHY" /\ q.side \in {"LEFT", "RIGHT"}
                             /\ Side_value(q.side) # r.hemiside)
                             => r.data_folder = q.data_folder

C6_Witness ==
    /\ Ran /\ load.err = "none"
    /\ \E n \in 1..Len(load.resolved) :
          /\ load.resolved[n].side = "HEALTHY"
          /\ load.resolved[n].hemiside = "R"
          /\ load.resolved[n].data_folder = LFolder

-----------------------------------------------------------------------------
(* The manifest, as the claims about from_json describe it *)

EnumCodes == {"AVG", "Trad"}

\* the (subject, activity) positions of the manifest
ActivityAt ==
    UNION {{<<i, a>> : a \in 1..Len(manifest[i].v.activities)} : i \in 1..Len(manifest)}

TypesOf(p) == manifest[p[1]].v.activities[p[2]].v

TypeMismatchAt(p) == Range(Keys(TypesOf(p))) # EnumCodes

UnknownCodeAt(p) == ~(Range(Keys(TypesOf(p))) \subseteq EnumCodes)

HemisidesOK == \A i \in 1..Len(manifest) : manifest[i].v.hemiside \in {"L", "R"}

NamesOK ==
    \A i \in 1..Len(manifest) :
        Range(Keys(manifest[i].v.activities)) = Range(Keys(manifest[1].v.activities))

ValidTimes == {Time(h, m, sec) : h \in Range(Digits), m \in Range(Digits), sec \in Range(Digits)}

\* every leaf names folders that exist for both physical sides, each with exactly
\* one file of each kind, and windows that parse
LeavesOK ==
    \A p \in ActivityAt : \A t \in 1..Len(TypesOf(p)) :
        LET meta == TypesOf(p)[t].v
        IN /\ \A c \in {"L", "R"} :
                 \E f \in fs :
                    /\ f.path = [k \in 1..Len(meta.data_folder) |->
                                    IF meta.data_folder[k] = "*" THEN c
                                    ELSE meta.data_folder[k]]
                    /\ f.activity_counts = 1 /\ f.pulse_rate = 1
                    /\ Path_name(f.path) \in Dates
           /\ \A w \in 1..Len(meta.data) :
                 meta.data[w].start \in ValidTimes /\ meta.data[w].end \in ValidTimes

Logged(kind) == \E n \in 1..Len(load.log) : load.log[n].kind = kind

MismatchLogged(subject, side, activity) ==
    \E n \in 1..Len(load.log) :
        load.log[n] = [kind |-> "ActivityTypesMismatch", subject |-> subject,
                       side |-> side, activity |-> activity]

\* C7 as stated: an activity whose type codes differ from {"AVG", "Trad"} (a code
\* missing, or a code outside the enumeration present) is logged and never makes
\* from_json fail.
C7_TypeMismatchNeverFatal ==
    (Ran /\ HemisidesOK /\ NamesOK /\ LeavesOK /\ \E p \in ActivityAt : TypeMismatchAt(p)) =>
        /\ load.err = "none"
        /\ Logged("ActivityTypesMismatch")

\* C7 amended: when codes are only missing, the mismatch is logged for every side
\* and from_json does not fail; when a code outside the enumeration is present,
\* the mismatch is logged and from_json then fails with UnknownCode; an
\* activity-name mismatch always fails, with SchemaMismatch when nothing else is
\* wrong.
C7_MissingTypeNotFatal ==
    Ran =>
        /\ (HemisidesOK /\ NamesOK /\ LeavesOK /\ \A p \in ActivityAt : ~UnknownCodeAt(p)) =>
              /\ load.err = "none"
              /\ \A p \in ActivityAt : \A j \in 1..Len(Side) :
                    TypeMismatchAt(p) =>
                        MismatchLogged(manifest[p[1]].k, Side[j],
                                       manifest[p[1]].v.activities[p[2]].k)
        /\ (HemisidesOK /\ NamesOK /\ LeavesOK /\ \E p \in ActivityAt : UnknownCodeAt(p)) =>
              /\ load.err = "UnknownCode"
              /\ Logged("ActivityTypesMismatch")
        /\ ~NamesOK => load.err # "none"
        /\ (~NamesOK /\ HemisidesOK /\ LeavesOK /\ \A p \in ActivityAt : ~UnknownCodeAt(p)) =>
              /\ load.err = "SchemaMismatch"
              /\ Logged("SchemaMismatch")

C7_Witness ==
    /\ Ran /\ load.err = "none"
    /\ \E p \in ActivityAt : TypeMismatchAt(p)
    /\ Logged("ActivityTypesMismatch")

-----------------------------------------------------------------------------
(* Plotter and Exporter *)

SideSet(d) == UNION {Range(Keys(d[i].v)) : i \in 1..Len(d)}

MixedFrames(S) == S \cap {"LEFT", "RIGHT"} # {} /\ S \cap {"HEMISIDE", "HEALTHY"} # {}

HasActivity(d) == Len(d) > 0 /\ Len(d[1].v) > 0 /\ Len(d[1].v[1].v) > 0

\* C8 as stated: a boxplot on a collection whose sides mix {LEFT, RIGHT} with
\* {HEMISIDE, HEALTHY} fails with MixedSideFrame before anything is rendered, and
\* MixedSideFrame is never raised when the sides lie within one frame.
C8_MixedAlwaysRejected ==
    op.kind = "boxplot" =>
        /\ MixedFrames(SideSet(view)) => (op.err = "MixedSideFrame" /\ op.events = <<>>)
        /\ ~MixedFrames(SideSet(view)) => op.err # "MixedSideFrame"

\* C8 amended: the same for a collection with exactly one subject and at least one
\* activity; with more than one subject the boxplot fails with
\* MultiSubjectUnsupported, and with no activity with an index error, in both
\* cases before anything is rendered.
C8_MixedRejectedForOneSubject ==
    op.kind = "boxplot" =>
        /\ (Len(view) = 1 /\ HasActivity(view) /\ MixedFrames(SideSet(view)))
              => (op.err = "MixedSideFrame" /\ op.events = <<>>)
        /\ Len(view) > 1 => (op.err = "MultiSubjectUnsupported" /\ op.events = <<>>)
        /\ (Len(view) = 1 /\ ~HasActivity(view)) => (op.err = "IndexError" /\ op.events = <<>>)
        /\ ~MixedFrames(SideSet(view)) => op.err # "MixedSideFrame"

C8_Witness ==
    /\ op.kind = "boxplot"
    /\ Len(view) = 1
    /\ {"LEFT", "HEMISIDE"} \subseteq SideSet(view)
    /\ op.err = "MixedSideFrame"

IsHemiside(key) == key.side = "HEMISIDE"

Healthy(key) == [key EXCEPT !.side = "HEALTHY"]

\* C9: the bimanual table has exactly one row per iterated HEMISIDE quadruple, none
\* for another side, each pairing the HEMISIDE instance with the HEALTHY instance
\* of the same subject, activity and activity type; if a HEALTHY counterpart is
\* absent the export fails with a key-lookup error instead of skipping the row.
C9_Bimanual ==
    op.kind = "to_csv" =>
        LET H == SelectSeq(iter(view).val, IsHemiside)
        IN /\ (\E n \in 1..Len(H) : Healthy(H[n]) \notin StoredKeys(view))
                 => (op.err = "KeyNotFound" /\ op.bimanual = <<>>)
           /\ op.err = "none" =>
                 /\ Len(op.bimanual) = Len(H)
                 /\ \A n \in 1..Len(H) :
                       op.bimanual[n] =
                           [subject |-> H[n].subject, activity |-> H[n].activity,
                            activity_type |-> H[n].activity_type,
                            tp_hemi |-> LeafId(view, H[n]),
                            tp_healthy |-> LeafId(view, Healthy(H[n]))]

C9_Witness ==
    /\ op.kind = "to_csv"
    /\ op.err = "none"
    /\ Len(op.bimanual) >= 2
    /\ \A n \in 1..Len(op.bimanual) : op.bimanual[n].tp_hemi # op.bimanual[n].tp_healthy

\* C10 as stated: a call of to_csv that ends with an error has written neither
\* summary_statistics.csv nor bimanual_statistics.csv.
C10_NoPartialResults ==
    (op.kind = "to_csv" /\ op.err # "none") => op.written = <<>>

\* C10 amended: a call that fails on a key lookup while building the summary table
\* has written neither file; a call that fails on the lookup of an absent HEALTHY
\* counterpart while building the bimanual table has written
\* summary_statistics.csv and not bimanual_statistics.csv; bimanual_statistics.csv
\* is written only by a call that completes.
C10_SummaryPersistsOnBimanualError ==
    op.kind = "to_csv" =>
        LET K == iter(view).val
            summaryFails == \E n \in 1..Len(K) : K[n] \notin StoredKeys(view)
            bimanualFails == \E n \in 1..Len(K) :
                                IsHemiside(K[n]) /\ Healthy(K[n]) \notin StoredKeys(view)
        IN /\ summaryFails => (op.err = "KeyNotFound" /\ op.written = <<>>)
           /\ (~summaryFails /\ bimanualFails)
                 => (op.err = "KeyNotFound" /\ op.written = <<"summary_statistics.csv">>)
           /\ "bimanual_statistics.csv" \in Range(op.written) => op.err = "none"
           /\ op.err = "none"
                 => op.written = <<"summary_statistics.csv", "bimanual_statistics.csv">>

C10_Witness ==
    /\ op.kind = "to_csv"
    /\ op.err = "KeyNotFound"
    /\ op.written = <<"summary_statistics.csv">>
    /\ "HEALTHY" \notin SideSet(view)

====
